---- MODULE Spec2Model ----
(***************************************************************************)
(* PixelVault: upload ingestion, image deletion, category deletion and the *)
(* storage / image-count accounting done by the Image schema hooks.        *)
(*                                                                         *)
(* Every request is a process; a step is the code up to the completion of  *)
(* the next await of its handler. A store or filesystem call may fail      *)
(* wherever the code awaits one; MaxFaults bounds how many such failures a *)
(* behaviour contains.                                                     *)
(***************************************************************************)
EXTENDS Integers, Sequences, FiniteSets, TLC

\* ---------------------------------------------------------------- bounds
Users == {"u1", "u2"}          \* User documents
Cats == {"c1", "c2"}           \* Category ids; "c1" is a Category at the start
Sizes == {1, 2}                \* file.size of an uploaded file (scaled bytes)
Reqs == {"r1", "r2"}           \* request slots
Emails == {"e1", "e2"}         \* email addresses
MaxBatch == 3                  \* files carried by one upload request
MaxImages == 3                 \* Image ids (and generated names) ever handed out
MaxFaults == 2                 \* injected store / filesystem failures

\* userSchema.maxStorage default (10GB in the source, scaled to the Sizes above)
DefaultMaxStorage == 3

NoCategory == "none"           \* req.body.category absent

\* multer limits: fileSize (10MB in the source, scaled to the Sizes above) and
\* files (10 in the source, scaled)
FileSizeLimit == 2
FilesLimit == 2

\* file.mimetype values, as character sequences
ImagePng == <<"i", "m", "a", "g", "e", "/", "p", "n", "g">>
TextCss == <<"t", "e", "x", "t", "/", "c", "s", "s">>

\* the files a client may put in a request: mimetype and length in bytes
ClientFiles ==
    {[mime |-> ImagePng, size |-> 1], [mime |-> ImagePng, size |-> FileSizeLimit],
     [mime |-> ImagePng, size |-> FileSizeLimit + 1], [mime |-> TextCss, size |-> 1]}

VARIABLES
    storageUsed,   \* User.storageUsed, per user
    imageCount,    \* Category.imageCount, per category
    categories,    \* ids of the Category documents that exist
    images,        \* the Image collection: a set of records
    blobs,         \* names of the files in public/uploads/images
    nextId,        \* next Image id / next fresh generated file name
    faults,        \* failures injected so far
    rq,            \* per request slot: the request's position and locals
    categoryName,  \* Category.name, per category, as a character sequence
    users          \* the User collection: records of username and email

vars == <<storageUsed, imageCount, categories, images, blobs, nextId, faults, rq,
          categoryName, users>>

\* ---------------------------------------------------------------- helpers
maxStorage(u) == DefaultMaxStorage

RECURSIVE SumSize(_)
SumSize(S) ==
    IF S = {} THEN 0
    ELSE LET x == CHOOSE y \in S : TRUE IN x.size + SumSize(S \ {x})

\* Image.find({ userId: u }) and Image.find({ category: c })
ImagesOfUser(u) == {im \in images : im.userId = u}
ImagesOfCategory(c) == {im \in images : im.category = c}

\* The stores as they were when the request entered (history, for the claims)
Snapshot ==
    [storageUsed |-> storageUsed, imageCount |-> imageCount,
     categories |-> categories, images |-> images, blobs |-> blobs,
     categoryName |-> categoryName, users |-> users]

\* the value of a request's history fields while they record nothing
NoSnapshot ==
    [storageUsed |-> [u \in Users |-> 0], imageCount |-> [c \in Cats |-> 0],
     categories |-> {}, images |-> {}, blobs |-> {},
     categoryName |-> [c \in Cats |-> <<>>], users |-> {}]

IdleReq ==
    [kind |-> "none", pc |-> "idle", user |-> "u1", cat |-> NoCategory,
     files |-> <<>>, i |-> 0, uploadedImages |-> <<>>, errors |-> <<>>,
     pending |-> {}, unlinkErrors |-> {}, id |-> 0, resp |-> "",
     pre |-> NoSnapshot, again |-> FALSE, first |-> NoSnapshot,
     name |-> <<>>, email |-> "", form |-> "", authenticated |-> FALSE]

\* A slot is free once its request has answered and left no work behind
Free(r) == rq[r].pc \in {"idle", "done"}

Quiescent == \A r \in Reqs : Free(r)

\* a store or filesystem call fails for a reason outside the program
Fault == faults < MaxFaults /\ faults' = faults + 1

Respond(r, code) == [rq EXCEPT ![r].resp = code, ![r].pc = "done"]

\* fs.unlink(path): removes the file (ENOENT, and nothing removed, when there is
\* none), or fails and leaves it
Unlink(name) ==
    \/ blobs' = blobs \ {name} /\ UNCHANGED faults
    \/ name \in blobs /\ Fault /\ UNCHANGED blobs

\* ---------------------------------------------------------------- upload
\* storage.filename: `image-${Date.now()}-${random}${ext}`. The name is fresh,
\* unless (clash) the clock and the random draw repeat: then it is a name
\* already on disk or already given to an earlier file of the batch.
GeneratedNames(k, earlier, clash) ==
    {nextId + k - 1} \cup (IF clash THEN blobs \cup earlier ELSE {})

\* The batches multer can hand to the handler: files k = 1..n, each with the
\* Image id it will get, its size and its generated name.
RECURSIVE Batches(_, _)
Batches(n, clash) ==
    IF n = 0 THEN {<<>>}
    ELSE {Append(b, [id |-> nextId + n - 1, size |-> s, name |-> nm]) :
            b \in Batches(n - 1, clash), s \in Sizes,
            nm \in IF clash THEN 1..MaxImages ELSE {nextId + n - 1}}

BatchOk(b) ==
    \A k \in DOMAIN b :
        b[k].name \in GeneratedNames(k, {b[j].name : j \in 1..(k - 1)}, TRUE)

\* upload.array('imageFiles', 10) with multer.diskStorage: every file of the
\* request is written to disk (overwriting a file of the same name) before the
\* handler runs. Then the handler's batch-level checks, up to the completion
\* of Category.findById; if that throws, the outer catch only starts the
\* deletions (req.files.forEach(async file => fs.unlink(file.path))) and
\* sends the 500 without awaiting them.
BeginUpload(r, u, c, b) ==
    /\ Free(r)
    /\ nextId + Len(b) - 1 <= MaxImages
    /\ BatchOk(b)
    /\ blobs' = blobs \cup {b[k].name : k \in DOMAIN b}
    /\ nextId' = nextId + Len(b)
    /\ LET q == [rq EXCEPT ![r] =
                   [IdleReq EXCEPT !.kind = "upload", !.user = u, !.cat = c,
                                   !.files = b, !.pre = Snapshot]]
       IN \/ /\ Len(b) = 0
             /\ rq' = [q EXCEPT ![r].resp = "NoFiles", ![r].pc = "done"]
             /\ UNCHANGED faults
          \/ /\ Len(b) > 0 /\ c = NoCategory
             /\ rq' = [q EXCEPT ![r].resp = "CategoryRequired", ![r].pc = "done"]
             /\ UNCHANGED faults
          \/ /\ Len(b) > 0 /\ c # NoCategory /\ c \notin categories
             /\ rq' = [q EXCEPT ![r].resp = "InvalidCategory", ![r].pc = "done"]
             /\ UNCHANGED faults
          \/ /\ Len(b) > 0 /\ c \in categories
             /\ rq' = [q EXCEPT ![r].pc = "save", ![r].i = 1]
             /\ UNCHANGED faults
          \/ /\ Len(b) > 0 /\ c # NoCategory
             /\ Fault                                     \* findById throws
             /\ rq' = [q EXCEPT ![r].resp = "ServerError", ![r].pc = "cleanup",
                                ![r].pending = DOMAIN b]
    /\ UNCHANGED <<storageUsed, imageCount, categories, images, categoryName, users>>

\* ------------------------------------------------- upload: multer stage
\* String.prototype.startsWith
StartsWith(str, prefix) ==
    /\ Len(str) >= Len(prefix)
    /\ SubSeq(str, 1, Len(prefix)) = prefix

\* a filter that lets every file through
fileFilterAcceptsAll(file) == TRUE

\* fileFilter: cb(null, true) for an image, cb(new Error(...)) otherwise
fileFilter(file) == StartsWith(file.mime, <<"i", "m", "a", "g", "e", "/">>)

\* multer takes the parts in order: a part past limits.files raises
\* LIMIT_FILE_COUNT, a file the filter refuses raises its Error, and a file
\* longer than limits.fileSize raises LIMIT_FILE_SIZE
Refusal(sent, k) ==
    IF k > FilesLimit THEN "TooManyFiles"
    ELSE IF ~fileFilter(sent[k]) THEN "OnlyImages"
    ELSE IF sent[k].size > FileSizeLimit THEN "FileTooLarge"
    ELSE "none"

Refused(sent) == {k \in DOMAIN sent : Refusal(sent, k) # "none"}

\* req.files as multer would build it from the parts sent
Received(sent) ==
    [k \in DOMAIN sent |->
        [id |-> nextId + k - 1, size |-> sent[k].size, name |-> nextId + k - 1,
         mime |-> sent[k].mime]]

\* upload.array('imageFiles', 10) in front of the handler. If multer refuses a
\* part it removes what it has stored of the request and passes the error on:
\* the handler is skipped and the router's error middleware answers 400.
\* Otherwise the handler runs on req.files.
MulterUpload(r, u, c, sent) ==
    IF Refused(sent) = {}
    THEN BeginUpload(r, u, c, Received(sent))
    ELSE /\ Free(r)
         /\ LET first == CHOOSE k \in Refused(sent) :
                             \A j \in Refused(sent) : k <= j
            IN rq' = [rq EXCEPT ![r] =
                        [IdleReq EXCEPT !.kind = "upload", !.user = u, !.cat = c,
                                        !.files = Received(sent), !.pre = Snapshot,
                                        !.resp = Refusal(sent, first),
                                        !.pc = "done"]]
         /\ UNCHANGED <<storageUsed, imageCount, categories, images, blobs,
                        nextId, faults, categoryName, users>>

\* ------------------------------------------------- upload: per-file loop
CurFile(r) == rq[r].files[rq[r].i]

\* new Image({...}) for the current file (uploadStatus takes its default)
NewImage(r) ==
    [id |-> CurFile(r).id, userId |-> rq[r].user, category |-> rq[r].cat,
     size |-> CurFile(r).size, fileName |-> CurFile(r).name,
     uploadStatus |-> "processing"]

\* a response assembly that reports success only when no file failed
NextFileAllOrNothing(r, q) ==
    IF q[r].i < Len(q[r].files)
    THEN [q EXCEPT ![r].pc = "save", ![r].i = @ + 1]
    ELSE [q EXCEPT ![r].pc = "done",
                   ![r].resp = IF Len(q[r].errors) > 0
                               THEN "NoImagesUploaded" ELSE "Success"]

\* the loop's step to the next file or, past the last one, the response
\* assembly
NextFile(r, q) ==
    IF q[r].i < Len(q[r].files)
    THEN [q EXCEPT ![r].pc = "save", ![r].i = @ + 1]
    ELSE [q EXCEPT ![r].pc = "done",
                   ![r].resp = IF Len(q[r].uploadedImages) = 0
                               THEN "NoImagesUploaded" ELSE "Success"]

\* an exception inside the loop that escapes to the handler's outer catch
ToCatchOuter(r, step) ==
    [rq EXCEPT ![r].resp = "ServerError", ![r].pc = "cleanup",
               ![r].pending = DOMAIN rq[r].files]

\* a per-file catch that starts the unlink without awaiting it: the failure is
\* recorded and the loop goes on at once
ToCatchNoAwait(r, step) ==
    NextFile(r, [rq EXCEPT ![r].errors = Append(@, [file |-> rq[r].i, step |-> step])])

\* an exception inside the per-file try: the per-file catch runs up to its
\* await, errors.push(`Failed to save ...: ${error.message}`) done
ToCatch(r, step) ==
    [rq EXCEPT ![r].pc = "catchFile",
               ![r].errors = Append(@, [file |-> rq[r].i, step |-> step])]

\* an update that writes back a value computed from what the request read when
\* it entered, instead of a $inc applied by the store
IncStorageUsedFromRead(r) ==
    [storageUsed EXCEPT ![rq[r].user] =
        rq[r].pre.storageUsed[rq[r].user] + CurFile(r).size]

\* the pre('save') hook's two updates. A $inc on a document that does not exist
\* updates nothing and is no error.
IncStorageUsed(r) == [storageUsed EXCEPT ![rq[r].user] = @ + CurFile(r).size]

IncImageCount(r) ==
    IF rq[r].cat \in categories
    THEN [imageCount EXCEPT ![rq[r].cat] = @ + 1]
    ELSE imageCount

\* image.save() of a new document, one await of the handler: the built-in
\* validation; then the pre('save') hook, User.findByIdAndUpdate(userId,
\* { $inc: { storageUsed: size } }) and Category.findByIdAndUpdate(category,
\* { $inc: { imageCount: 1 } }), either of which may throw (next(error)); then
\* the insert, on which fileName is a unique index.
Save(r) ==
    /\ rq[r].kind = "upload" /\ rq[r].pc = "save"
    /\ \/ /\ Fault                     \* validation or the User update fails
          /\ rq' = ToCatch(r, "save")
          /\ UNCHANGED <<storageUsed, imageCount, images>>
       \/ /\ Fault                     \* the Category update fails
          /\ storageUsed' = IncStorageUsed(r)
          /\ rq' = ToCatch(r, "save")
          /\ UNCHANGED <<imageCount, images>>
       \/ /\ \/ Fault                  \* the insert fails, or the key is taken
             \/ /\ \E im \in images : im.fileName = CurFile(r).name
                /\ UNCHANGED faults
          /\ storageUsed' = IncStorageUsed(r)
          /\ imageCount' = IncImageCount(r)
          /\ rq' = ToCatch(r, "save")
          /\ UNCHANGED images
       \/ /\ \A im \in images : im.fileName # CurFile(r).name
          /\ storageUsed' = IncStorageUsed(r)
          /\ imageCount' = IncImageCount(r)
          /\ images' = images \cup {NewImage(r)}
          /\ rq' = [rq EXCEPT ![r].pc = "populate"]
          /\ UNCHANGED faults
    /\ UNCHANGED <<categories, blobs, nextId, categoryName, users>>

\* image.populate('category', 'name'); uploadedImages.push(image)
Populate(r) ==
    /\ rq[r].kind = "upload" /\ rq[r].pc = "populate"
    /\ \/ /\ rq' = NextFile(r, [rq EXCEPT ![r].uploadedImages = Append(@, rq[r].i)])
          /\ UNCHANGED faults
       \/ /\ Fault                     \* populate throws
          /\ rq' = ToCatch(r, "populate")
    /\ UNCHANGED <<storageUsed, imageCount, categories, images, blobs, nextId,
                   categoryName, users>>

\* a per-file catch that forgets the unlink: the failure is recorded and the
\* blob stays (the slip C7 guards against)
CatchFileKeepsBlob(r) ==
    /\ rq[r].kind = "upload" /\ rq[r].pc = "catchFile"
    /\ rq' = NextFile(r, rq)
    /\ UNCHANGED <<storageUsed, imageCount, categories, images, blobs, nextId, faults,
                   categoryName, users>>

\* the rest of the per-file catch: fs.unlink(file.path) completes; its own
\* failure is logged (console.error) and swallowed
CatchFile(r) ==
    /\ rq[r].kind = "upload" /\ rq[r].pc = "catchFile"
    /\ \/ /\ blobs' = blobs \ {CurFile(r).name}
          /\ rq' = NextFile(r, rq)
          /\ UNCHANGED faults
       \/ /\ CurFile(r).name \in blobs
          /\ Fault
          /\ rq' = NextFile(r, [rq EXCEPT ![r].unlinkErrors = @ \cup {rq[r].i}])
          /\ UNCHANGED blobs
    /\ UNCHANGED <<storageUsed, imageCount, categories, images, nextId,
                   categoryName, users>>

\* one of the deletions started by the outer catch completes
CleanupUnlink(r, k) ==
    /\ rq[r].kind = "upload" /\ rq[r].pc = "cleanup"
    /\ k \in rq[r].pending
    /\ Unlink(rq[r].files[k].name)
    /\ rq' = [rq EXCEPT ![r].pending = @ \ {k},
                        ![r].pc = IF rq[r].pending = {k} THEN "done" ELSE "cleanup"]
    /\ UNCHANGED <<storageUsed, imageCount, categories, images, nextId,
                   categoryName, users>>

\* ---------------------------------------------------------- delete image
\* a lookup that leaves the owner out of the filter: Image.findOne({ _id: id })
BeginDeleteImageAnyOwner(r, u, id) ==
    /\ Free(r)
    /\ LET found == {im \in images : im.id = id}
           q == [rq EXCEPT ![r] = [IdleReq EXCEPT !.kind = "deleteImage",
                                     !.user = u, !.id = id, !.pre = Snapshot]]
       IN \/ /\ found = {}
             /\ rq' = [q EXCEPT ![r].resp = "NotFound", ![r].pc = "done"]
          \/ /\ found # {}
             /\ rq' = [q EXCEPT ![r].pc = "unlink"]
    /\ UNCHANGED <<storageUsed, imageCount, categories, images, blobs, nextId, faults,
                   categoryName, users>>

\* router.delete('/image/:id'), up to Image.findOne({ _id: id, userId })
BeginDeleteImage(r, u, id) ==
    /\ Free(r)
    /\ LET found == {im \in images : im.id = id /\ im.userId = u}
           \* history: this call repeats the slot's last call, which deleted
           again == /\ rq[r].kind = "deleteImage" /\ rq[r].resp = "Deleted"
                    /\ rq[r].id = id /\ rq[r].user = u
           q == [rq EXCEPT ![r] = [IdleReq EXCEPT !.kind = "deleteImage",
                                     !.user = u, !.id = id, !.pre = Snapshot,
                                     !.again = again,
                                     !.first = IF again THEN rq[r].pre
                                               ELSE NoSnapshot]]
       IN \/ /\ found = {}
             /\ rq' = [q EXCEPT ![r].resp = "NotFound", ![r].pc = "done"]
             /\ UNCHANGED faults
          \/ /\ found # {}
             /\ rq' = [q EXCEPT ![r].pc = "unlink"]
             /\ UNCHANGED faults
          \/ /\ Fault                                     \* findOne throws
             /\ rq' = [q EXCEPT ![r].resp = "ServerError", ![r].pc = "done"]
    /\ UNCHANGED <<storageUsed, imageCount, categories, images, blobs, nextId,
                   categoryName, users>>

\* the document findOne returned
FoundImage(r) == CHOOSE im \in rq[r].pre.images : im.id = rq[r].id

\* an unlink whose failure is not caught: it ends the request with the 500
DeleteUnlinkFatal(r) ==
    /\ rq[r].kind = "deleteImage" /\ rq[r].pc = "unlink"
    /\ \/ /\ blobs' = blobs \ {FoundImage(r).fileName}
          /\ rq' = [rq EXCEPT ![r].pc = "remove"]
          /\ UNCHANGED faults
       \/ /\ FoundImage(r).fileName \in blobs
          /\ Fault
          /\ rq' = Respond(r, "ServerError")
          /\ UNCHANGED blobs
    /\ UNCHANGED <<storageUsed, imageCount, categories, images, nextId,
                   categoryName, users>>

\* fs.unlink(path.join(..., image.filePath)); a failure is logged and ignored
DeleteUnlink(r) ==
    /\ rq[r].kind = "deleteImage" /\ rq[r].pc = "unlink"
    /\ Unlink(FoundImage(r).fileName)
    /\ rq' = [rq EXCEPT ![r].pc = "remove"]
    /\ UNCHANGED <<storageUsed, imageCount, categories, images, nextId,
                   categoryName, users>>

\* Image.findByIdAndDelete(id): a query, so the document middleware
\* pre('remove') is not run by it
DeleteRemove(r) ==
    /\ rq[r].kind = "deleteImage" /\ rq[r].pc = "remove"
    /\ \/ /\ images' = {im \in images : im.id # rq[r].id}
          /\ rq' = Respond(r, "Deleted")
          /\ UNCHANGED faults
       \/ /\ Fault                                        \* the store fails
          /\ rq' = Respond(r, "ServerError")
          /\ UNCHANGED images
    /\ UNCHANGED <<storageUsed, imageCount, categories, blobs, nextId,
                   categoryName, users>>

\* ------------------------------------------------------------- get image
\* router.get('/image/:id'): Image.findOne({ _id: id, userId }).populate(...),
\* one await, then the answer
GetImage(r, u, id) ==
    /\ Free(r)
    /\ LET found == {im \in images : im.id = id /\ im.userId = u}
           q == [rq EXCEPT ![r] = [IdleReq EXCEPT !.kind = "getImage",
                                     !.user = u, !.id = id, !.pre = Snapshot]]
       IN \/ /\ found = {}
             /\ rq' = [q EXCEPT ![r].resp = "NotFound", ![r].pc = "done"]
             /\ UNCHANGED faults
          \/ /\ found # {}
             /\ rq' = [q EXCEPT ![r].resp = "Found", ![r].pc = "done"]
             /\ UNCHANGED faults
          \/ /\ Fault                              \* findOne or populate throws
             /\ rq' = [q EXCEPT ![r].resp = "ServerError", ![r].pc = "done"]
    /\ UNCHANGED <<storageUsed, imageCount, categories, images, blobs, nextId,
                   categoryName, users>>

\* ------------------------------------------------------- delete category
\* a check that trusts the cached counter, Category.imageCount, instead of
\* counting the Image records
BeginDeleteCategoryCached(r, c) ==
    /\ Free(r)
    /\ LET q == [rq EXCEPT ![r] = [IdleReq EXCEPT !.kind = "deleteCategory",
                                     !.cat = c, !.pre = Snapshot]]
       IN \/ /\ imageCount[c] > 0
             /\ rq' = [q EXCEPT ![r].resp = "CategoryHasImages", ![r].pc = "done"]
          \/ /\ imageCount[c] = 0
             /\ rq' = [q EXCEPT ![r].pc = "removeCategory"]
    /\ UNCHANGED <<storageUsed, imageCount, categories, images, blobs, nextId, faults,
                   categoryName, users>>

\* router.delete('/categories/:id'), up to Image.countDocuments({ category })
BeginDeleteCategory(r, c) ==
    /\ Free(r)
    /\ LET q == [rq EXCEPT ![r] = [IdleReq EXCEPT !.kind = "deleteCategory",
                                     !.cat = c, !.pre = Snapshot]]
       IN \/ /\ ImagesOfCategory(c) # {}
             /\ rq' = [q EXCEPT ![r].resp = "CategoryHasImages", ![r].pc = "done"]
             /\ UNCHANGED faults
          \/ /\ ImagesOfCategory(c) = {}
             /\ rq' = [q EXCEPT ![r].pc = "removeCategory"]
             /\ UNCHANGED faults
          \/ /\ Fault                                     \* the count throws
             /\ rq' = [q EXCEPT ![r].resp = "ServerError", ![r].pc = "done"]
    /\ UNCHANGED <<storageUsed, imageCount, categories, images, blobs, nextId,
                   categoryName, users>>

\* Category.findByIdAndDelete(id)
DeleteCategoryRemove(r) ==
    /\ rq[r].kind = "deleteCategory" /\ rq[r].pc = "removeCategory"
    /\ \/ /\ rq[r].cat \in categories
          /\ categories' = categories \ {rq[r].cat}
          /\ imageCount' = [imageCount EXCEPT ![rq[r].cat] = 0]
          /\ rq' = Respond(r, "Deleted")
          /\ UNCHANGED faults
       \/ /\ rq[r].cat \notin categories
          /\ rq' = Respond(r, "NotFound")
          /\ UNCHANGED <<categories, imageCount, faults>>
       \/ /\ Fault                                        \* the store fails
          /\ rq' = Respond(r, "ServerError")
          /\ UNCHANGED <<categories, imageCount>>
    /\ UNCHANGED <<storageUsed, images, blobs, nextId, categoryName, users>>

\* ------------------------------------------------- create / update category
\* req.body.name values a client may send
NameInputs ==
    {<<"a">>, <<"A">>, <<"d">>, <<"D">>, <<" ", "d", " ">>, <<" ">>, <<".">>}

\* String.prototype.trim
RECURSIVE Trim(_)
Trim(str) ==
    IF str = <<>> THEN <<>>
    ELSE IF Head(str) = " " THEN Trim(Tail(str))
    ELSE IF str[Len(str)] = " " THEN Trim(SubSeq(str, 1, Len(str) - 1))
    ELSE str

\* case folding of one character, as the regex flag 'i' does it
Lower(ch) == IF ch = "A" THEN "a" ELSE IF ch = "D" THEN "d" ELSE ch

\* new RegExp(`^${pattern}$`, 'i').test(str): the name is pasted into the
\* pattern unescaped, so a '.' in it stands for any character
RegexMatches(pattern, str) ==
    /\ Len(pattern) = Len(str)
    /\ \A k \in DOMAIN pattern :
           pattern[k] = "." \/ Lower(pattern[k]) = Lower(str[k])

\* Category.findOne({ name: { $regex: ... }, _id: { $ne: except } })
ExistingCategory(name, except) ==
    {c \in categories \ except : RegexMatches(name, categoryName[c])}

\* new Category({ name, description }): createdBy is not given
NewCategory(r) == [name |-> rq[r].name, createdBy |-> "none"]

\* the built-in validation of categorySchema: name required and matching
\* /^[a-zA-Z0-9\s\-_]+$/, createdBy required
ValidCategory(doc) ==
    /\ doc.name # <<>>
    /\ \A k \in DOMAIN doc.name : doc.name[k] # "."
    /\ doc.createdBy # "none"

\* router.post('/categories'), up to Category.findOne
BeginCreateCategory(r, raw) ==
    /\ Free(r)
    /\ LET q == [rq EXCEPT ![r] = [IdleReq EXCEPT !.kind = "createCategory",
                                     !.name = Trim(raw), !.pre = Snapshot]]
       IN \/ /\ Trim(raw) = <<>>
             /\ rq' = [q EXCEPT ![r].resp = "NameRequired", ![r].pc = "done"]
             /\ UNCHANGED faults
          \/ /\ Trim(raw) # <<>> /\ ExistingCategory(Trim(raw), {}) # {}
             /\ rq' = [q EXCEPT ![r].resp = "CategoryExists", ![r].pc = "done"]
             /\ UNCHANGED faults
          \/ /\ Trim(raw) # <<>> /\ ExistingCategory(Trim(raw), {}) = {}
             /\ rq' = [q EXCEPT ![r].pc = "saveCategory"]
             /\ UNCHANGED faults
          \/ /\ Trim(raw) # <<>>
             /\ Fault                                     \* findOne throws
             /\ rq' = [q EXCEPT ![r].resp = "ServerError", ![r].pc = "done"]
    /\ UNCHANGED <<storageUsed, imageCount, categories, images, blobs, nextId,
                   categoryName, users>>

\* category.save(): validation first; a valid document is inserted under an
\* id not in use, unless its name is taken (unique index, exact match)
CreateCategorySave(r) ==
    /\ rq[r].kind = "createCategory" /\ rq[r].pc = "saveCategory"
    /\ IF /\ ValidCategory(NewCategory(r))
          /\ Cats \ categories # {}
          /\ \A c \in categories : categoryName[c] # rq[r].name
       THEN LET c == CHOOSE x \in Cats \ categories : TRUE
            IN /\ categories' = categories \cup {c}
               /\ categoryName' = [categoryName EXCEPT ![c] = rq[r].name]
               /\ imageCount' = [imageCount EXCEPT ![c] = 0]
               /\ rq' = Respond(r, "Created")
       ELSE /\ rq' = Respond(r, "ServerError")
            /\ UNCHANGED <<categories, categoryName, imageCount>>
    /\ UNCHANGED <<storageUsed, images, blobs, nextId, faults, users>>

\* router.put('/categories/:id'), up to Category.findOne
BeginUpdateCategory(r, c, raw) ==
    /\ Free(r)
    /\ LET q == [rq EXCEPT ![r] = [IdleReq EXCEPT !.kind = "updateCategory",
                                     !.cat = c, !.name = Trim(raw),
                                     !.pre = Snapshot]]
       IN \/ /\ Trim(raw) = <<>>
             /\ rq' = [q EXCEPT ![r].resp = "NameRequired", ![r].pc = "done"]
             /\ UNCHANGED faults
          \/ /\ Trim(raw) # <<>> /\ ExistingCategory(Trim(raw), {c}) # {}
             /\ rq' = [q EXCEPT ![r].resp = "CategoryExists", ![r].pc = "done"]
             /\ UNCHANGED faults
          \/ /\ Trim(raw) # <<>> /\ ExistingCategory(Trim(raw), {c}) = {}
             /\ rq' = [q EXCEPT ![r].pc = "updateCategory"]
             /\ UNCHANGED faults
          \/ /\ Trim(raw) # <<>>
             /\ Fault                                     \* findOne throws
             /\ rq' = [q EXCEPT ![r].resp = "ServerError", ![r].pc = "done"]
    /\ UNCHANGED <<storageUsed, imageCount, categories, images, blobs, nextId,
                   categoryName, users>>

\* Category.findByIdAndUpdate(id, { name, description }, { new: true }): no
\* validators run; the unique index on name refuses an exact duplicate
UpdateCategoryWrite(r) ==
    /\ rq[r].kind = "updateCategory" /\ rq[r].pc = "updateCategory"
    /\ \/ /\ rq[r].cat \notin categories
          /\ rq' = Respond(r, "NotFound")
          /\ UNCHANGED <<categoryName, faults>>
       \/ /\ rq[r].cat \in categories
          /\ \A c \in categories \ {rq[r].cat} : categoryName[c] # rq[r].name
          /\ categoryName' = [categoryName EXCEPT ![rq[r].cat] = rq[r].name]
          /\ rq' = Respond(r, "Updated")
          /\ UNCHANGED faults
       \/ /\ \/ Fault                  \* the store fails, or the key is taken
             \/ /\ rq[r].cat \in categories
                /\ \E c \in categories \ {rq[r].cat} :
                       categoryName[c] = rq[r].name
                /\ UNCHANGED faults
          /\ rq' = Respond(r, "ServerError")
          /\ UNCHANGED categoryName
    /\ UNCHANGED <<storageUsed, imageCount, categories, images, blobs, nextId,
                   users>>

\* --------------------------------------------------------------- register
\* the registration form as filled in: complete and consistent, a field left
\* empty, the two passwords different, or a password under 6 characters
Forms == {"ok", "missing", "mismatch", "short"}

\* a handler that serves only the first account
RegisterFirstUserOnly(r, authenticated, username, email, form) ==
    /\ Free(r)
    /\ LET q == [rq EXCEPT ![r] = [IdleReq EXCEPT !.kind = "register",
                                     !.user = username, !.email = email,
                                     !.form = form,
                                     !.authenticated = authenticated,
                                     !.pre = Snapshot]]
       IN \/ /\ users # {}
             /\ rq' = [q EXCEPT ![r].resp = "RegistrationClosed", ![r].pc = "done"]
             /\ UNCHANGED users
          \/ /\ users = {}
             /\ users' = {[username |-> username, email |-> email]}
             /\ rq' = [q EXCEPT ![r].resp = "Registered", ![r].pc = "done"]
    /\ UNCHANGED <<storageUsed, imageCount, categories, images, blobs, nextId,
                   faults, categoryName>>

\* router.post('/register', redirectIfAuth, ...): the form checks, then
\* bcrypt.hash and user.save(), on which username and email are unique
\* indexes; the catch renders the form again with a message
Register(r, authenticated, username, email, form) ==
    /\ Free(r)
    /\ LET q == [rq EXCEPT ![r] = [IdleReq EXCEPT !.kind = "register",
                                     !.user = username, !.email = email,
                                     !.form = form,
                                     !.authenticated = authenticated,
                                     !.pre = Snapshot]]
           answer(code) == rq' = [q EXCEPT ![r].resp = code, ![r].pc = "done"]
       IN \/ /\ authenticated
             /\ answer("Redirected")
             /\ UNCHANGED <<users, faults>>
          \/ /\ ~authenticated /\ form = "missing"
             /\ answer("AllFieldsRequired")
             /\ UNCHANGED <<users, faults>>
          \/ /\ ~authenticated /\ form = "mismatch"
             /\ answer("PasswordMismatch")
             /\ UNCHANGED <<users, faults>>
          \/ /\ ~authenticated /\ form = "short"
             /\ answer("PasswordTooShort")
             /\ UNCHANGED <<users, faults>>
          \/ /\ ~authenticated /\ form = "ok"
             /\ \E us \in users : us.username = username
             /\ answer("UsernameExists")
             /\ UNCHANGED <<users, faults>>
          \/ /\ ~authenticated /\ form = "ok"
             /\ \E us \in users : us.email = email
             /\ answer("EmailExists")
             /\ UNCHANGED <<users, faults>>
          \/ /\ ~authenticated /\ form = "ok"
             /\ \A us \in users : us.username # username /\ us.email # email
             /\ users' = users \cup {[username |-> username, email |-> email]}
             /\ answer("Registered")
             /\ UNCHANGED faults
          \/ /\ ~authenticated /\ form = "ok"
             /\ Fault                           \* bcrypt or the store fails
             /\ answer("RegistrationError")
             /\ UNCHANGED users
    /\ UNCHANGED <<storageUsed, imageCount, categories, images, blobs, nextId,
                   categoryName>>

\* ---------------------------------------------------------- specification
\* the names of the Categories and the accounts of the two users at the start
InitialNames == [c \in Cats |-> IF c = "c1" THEN <<"a">> ELSE <<"b">>]
InitialUsers ==
    {[username |-> "u1", email |-> "e1"], [username |-> "u2", email |-> "e2"]}

Init ==
    /\ storageUsed = [u \in Users |-> 0]
    /\ imageCount = [c \in Cats |-> 0]
    /\ categories = {"c1"}
    /\ images = {}
    /\ blobs = {}
    /\ nextId = 1
    /\ faults = 0
    /\ rq = [r \in Reqs |-> IdleReq]
    /\ categoryName = InitialNames
    /\ users = InitialUsers

\* The steps of request slot r. actors: the session users who send requests;
\* cats: the category fields they send; clash: whether a generated file name may
\* repeat an earlier one.
Step(r, actors, cats, clash) ==
    \/ \E u \in actors, c \in cats, n \in 0..MaxBatch :
           \E b \in Batches(n, clash) : BeginUpload(r, u, c, b)
    \/ Save(r)
    \/ Populate(r)
    \/ CatchFile(r)
    \/ \E k \in 1..MaxBatch : CleanupUnlink(r, k)
    \/ \E u \in actors, id \in 1..(nextId - 1) : BeginDeleteImage(r, u, id)
    \/ DeleteUnlink(r)
    \/ DeleteRemove(r)
    \/ \E c \in cats \ {NoCategory} : BeginDeleteCategory(r, c)
    \/ DeleteCategoryRemove(r)

\* The requests of one user, u1, one at a time: uploads into Category c1 or
\* with no category field, deletions of images, deletions of c1
Next == Step("r1", {"u1"}, {"c1", NoCategory}, FALSE)

Spec == Init /\ [][Next]_vars

\* Two users, one request at a time: u1 uploads one file into c1, and either
\* user asks to delete or to read any image id, issued or not
OwnersNext ==
    \/ \E b \in Batches(1, FALSE) : BeginUpload("r1", "u1", "c1", b)
    \/ Save("r1")
    \/ Populate("r1")
    \/ CatchFile("r1")
    \/ CleanupUnlink("r1", 1)
    \/ \E u \in Users, id \in 1..MaxImages : BeginDeleteImage("r1", u, id)
    \/ DeleteUnlink("r1")
    \/ DeleteRemove("r1")
    \/ \E u \in Users, id \in 1..MaxImages : GetImage("r1", u, id)

SpecOwners == Init /\ [][OwnersNext]_vars

\* Two requests in flight at once: each slot serves one upload by u1 of one or
\* two files into c1, the steps of the two handlers interleaving at their awaits
ConcurrentNext ==
    \E r \in Reqs :
        \/ /\ rq[r].pc = "idle"
           /\ \E n \in 1..2 : \E b \in Batches(n, FALSE) :
                  BeginUpload(r, "u1", "c1", b)
        \/ Save(r)
        \/ Populate(r)
        \/ CatchFile(r)
        \/ \E k \in 1..MaxBatch : CleanupUnlink(r, k)

SpecConcurrent == Init /\ [][ConcurrentNext]_vars

\* Uploads by u1 of one or two files into c1, one request at a time, where the
\* clock and the random draw of storage.filename may repeat
ClashNext ==
    \/ \E n \in 1..2 : \E b \in Batches(n, TRUE) : BeginUpload("r1", "u1", "c1", b)
    \/ Save("r1")
    \/ Populate("r1")
    \/ CatchFile("r1")
    \/ \E k \in 1..2 : CleanupUnlink("r1", k)

SpecClash == Init /\ [][ClashNext]_vars

\* the stores with both Categories present, named 'a' and 'b'
InitTwoCategories ==
    /\ storageUsed = [u \in Users |-> 0]
    /\ imageCount = [c \in Cats |-> 0]
    /\ categories = Cats
    /\ images = {}
    /\ blobs = {}
    /\ nextId = 1
    /\ faults = 0
    /\ rq = [r \in Reqs |-> IdleReq]
    /\ categoryName = InitialNames
    /\ users = InitialUsers

\* Two dashboard requests in flight at once: each slot serves one create or one
\* update of a Category
CategoryNext ==
    \E r \in Reqs :
        \/ /\ rq[r].pc = "idle"
           /\ \E raw \in NameInputs : BeginCreateCategory(r, raw)
        \/ CreateCategorySave(r)
        \/ /\ rq[r].pc = "idle"
           /\ \E c \in Cats, raw \in NameInputs : BeginUpdateCategory(r, c, raw)
        \/ UpdateCategoryWrite(r)

SpecCategories == InitTwoCategories /\ [][CategoryNext]_vars

\* a fresh installation: no User has registered
InitNoUsers ==
    /\ storageUsed = [u \in Users |-> 0]
    /\ imageCount = [c \in Cats |-> 0]
    /\ categories = {"c1"}
    /\ images = {}
    /\ blobs = {}
    /\ nextId = 1
    /\ faults = 0
    /\ rq = [r \in Reqs |-> IdleReq]
    /\ categoryName = InitialNames
    /\ users = {}

\* Registration requests, one at a time
RegisterNext ==
    \E authenticated \in BOOLEAN, u \in Users, e \in Emails, form \in Forms :
        Register("r1", authenticated, u, e, form)

SpecRegister == InitNoUsers /\ [][RegisterNext]_vars

\* An upload by u1 of one or two files into c1 on one slot, in flight together
\* with a delete of Category c1 on the other
UploadVsDeleteNext ==
    \/ /\ rq["r1"].pc = "idle"
       /\ \E n \in 1..2 : \E b \in Batches(n, FALSE) :
              BeginUpload("r1", "u1", "c1", b)
    \/ Save("r1")
    \/ Populate("r1")
    \/ CatchFile("r1")
    \/ \E k \in 1..2 : CleanupUnlink("r1", k)
    \/ /\ rq["r2"].pc = "idle"
       /\ BeginDeleteCategory("r2", "c1")
    \/ DeleteCategoryRemove("r2")

SpecUploadVsDelete == Init /\ [][UploadVsDeleteNext]_vars

\* the requests a client can send: up to one file more than multer allows
RECURSIVE Sent(_)
Sent(n) ==
    IF n = 0 THEN {<<>>}
    ELSE {Append(s, f) : s \in Sent(n - 1), f \in ClientFiles}

\* the stores after u1 has uploaded one file of size 1 into c1
InitOneImage ==
    /\ storageUsed = [u \in Users |-> IF u = "u1" THEN 1 ELSE 0]
    /\ imageCount = [c \in Cats |-> IF c = "c1" THEN 1 ELSE 0]
    /\ categories = {"c1"}
    /\ images = {[id |-> 1, userId |-> "u1", category |-> "c1", size |-> 1,
                   fileName |-> 1, uploadStatus |-> "processing"]}
    /\ blobs = {1}
    /\ nextId = 2
    /\ faults = 0
    /\ rq = [r \in Reqs |-> IdleReq]
    /\ categoryName = InitialNames
    /\ users = InitialUsers

\* One upload by u1 into c1 with multer in front of the handler
MulterNext ==
    \/ /\ rq["r1"].pc = "idle"
       /\ \E n \in 0..(FilesLimit + 1) : \E sent \in Sent(n) :
              MulterUpload("r1", "u1", "c1", sent)
    \/ Save("r1")
    \/ Populate("r1")
    \/ CatchFile("r1")
    \/ \E k \in 1..MaxBatch : CleanupUnlink("r1", k)

SpecMulter == InitOneImage /\ [][MulterNext]_vars

\* Two deleteImage requests by u1, in flight together, one on each slot, each
\* for the image in the store or for an id no image has
TwoDeletesNext ==
    \E r \in Reqs :
        \/ /\ rq[r].pc = "idle"
           /\ \E id \in 1..2 : BeginDeleteImage(r, "u1", id)
        \/ DeleteUnlink(r)
        \/ DeleteRemove(r)

SpecTwoDeletes == InitOneImage /\ [][TwoDeletesNext]_vars

\* ----------------------------------------------------------------- claims
UploadDone(r) == rq[r].kind = "upload" /\ rq[r].pc = "done"

\* the upload passed the batch-level checks and ran its per-file loop to the end
UploadAnswered(r) ==
    UploadDone(r) /\ rq[r].resp \in {"Success", "NoImagesUploaded"}

DeleteDone(r) == rq[r].kind = "deleteImage" /\ rq[r].pc = "done"

BatchNames(r) == {rq[r].files[k].name : k \in DOMAIN rq[r].files}

RECURSIVE BatchSize(_)
BatchSize(b) == IF b = <<>> THEN 0 ELSE Head(b).size + BatchSize(Tail(b))

\* sum of the sizes of the images the response lists as uploaded
RECURSIVE UploadedSize(_, _)
UploadedSize(r, ks) ==
    IF ks = <<>> THEN 0
    ELSE rq[r].files[Head(ks)].size + UploadedSize(r, Tail(ks))

ErrorFiles(r) == {rq[r].errors[k].file : k \in DOMAIN rq[r].errors}
UploadedFiles(r) == {rq[r].uploadedImages[k] : k \in DOMAIN rq[r].uploadedImages}

\* C1: whenever no request is in progress, each user's storageUsed equals the
\* sum of size over the Image records that exist with that user as userId.
C1_StorageUsedIsSumOfSizes ==
    Quiescent => \A u \in Users : storageUsed[u] = SumSize(ImagesOfUser(u))

\* C2: whenever no request is in progress, each Category's imageCount equals
\* the number of Image records that reference the category.
C2_ImageCountIsNumberOfImages ==
    Quiescent =>
        \A c \in categories : imageCount[c] = Cardinality(ImagesOfCategory(c))

\* C3: a successful deleteImage by the owner decreases the owner's storageUsed
\* by exactly the image's size and the category's imageCount by exactly one.
C3_DeleteDecrementsCounters ==
    \A r \in Reqs :
        (DeleteDone(r) /\ rq[r].resp = "Deleted") =>
            LET im == FoundImage(r) IN
            /\ storageUsed[im.userId]
                 = rq[r].pre.storageUsed[im.userId] - im.size
            /\ imageCount[im.category]
                 = rq[r].pre.imageCount[im.category] - 1

\* C4: an upload batch (one that passes the batch-level checks, in a behaviour
\* without store or filesystem failures) whose total size added to the owner's
\* storageUsed exceeds the owner's maxStorage is rejected as a whole: no Image
\* record is created, no blob of the batch stays on disk, and storageUsed is
\* unchanged.
C4_OverQuotaBatchRejected ==
    \A r \in Reqs :
        ( /\ UploadAnswered(r)
          /\ faults = 0
          /\ rq[r].pre.storageUsed[rq[r].user] + BatchSize(rq[r].files)
               > maxStorage(rq[r].user) ) =>
            /\ rq[r].resp # "Success"
            /\ images = rq[r].pre.images
            /\ BatchNames(r) \cap blobs = {}
            /\ storageUsed = rq[r].pre.storageUsed

\* C5: whenever no request is in progress, every Image record has its blob on
\* disk at its filePath (no orphaned record).
C5_NoOrphanedRecord ==
    Quiescent => \A im \in images : im.fileName \in blobs

\* C6: an upload rejected by a batch-level check (no files, no category field,
\* a category id that resolves to no Category) has no side effects: no blob of
\* the batch is on disk, no Image record was created, storageUsed and
\* imageCount are unchanged.
C6_RejectedBatchNoSideEffects ==
    \A r \in Reqs :
        ( /\ UploadDone(r)
          /\ rq[r].resp \in {"NoFiles", "CategoryRequired", "InvalidCategory"} ) =>
            /\ BatchNames(r) \cap blobs = {}
            /\ images = rq[r].pre.images
            /\ storageUsed = rq[r].pre.storageUsed
            /\ imageCount = rq[r].pre.imageCount

\* C7 as stated: when the response of a validated batch is produced, no file
\* whose record save failed has its blob on disk.
C7_FailedSaveBlobGone ==
    \A r \in Reqs :
        UploadAnswered(r) =>
            \A k \in DOMAIN rq[r].errors :
                rq[r].errors[k].step = "save" =>
                    rq[r].files[rq[r].errors[k].file].name \notin blobs

\* C7 as amended: when the response of a validated batch is produced, every
\* file of the batch was processed and is either among the uploaded images or
\* among the failures, never both; a file whose save failed is among the
\* failures; and the blob of every failed file has been unlinked: it is off the
\* disk unless that unlink itself failed (and was logged).
C7_FailedFileCleanedUp ==
    \A r \in Reqs :
        UploadAnswered(r) =>
            /\ UploadedFiles(r) \cup ErrorFiles(r) = DOMAIN rq[r].files
            /\ UploadedFiles(r) \cap ErrorFiles(r) = {}
            /\ Len(rq[r].uploadedImages) + Len(rq[r].errors) = Len(rq[r].files)
            /\ \A k \in UploadedFiles(r) :
                   \E im \in images : im.id = rq[r].files[k].id
            /\ \A k \in ErrorFiles(r) :
                   \/ rq[r].files[k].name \notin blobs
                   \/ k \in rq[r].unlinkErrors

\* C7, the case reached: a batch of 3 files in which only file 2's save failed: 2 uploaded images,
\* 1 failure, no blob on disk for file 2
C7_Witness ==
    /\ UploadAnswered("r1")
    /\ Len(rq["r1"].files) = 3
    /\ rq["r1"].resp = "Success"
    /\ rq["r1"].uploadedImages = <<1, 3>>
    /\ rq["r1"].errors = <<[file |-> 2, step |-> "save"]>>
    /\ rq["r1"].files[2].name \notin blobs
    /\ {rq["r1"].files[1].name, rq["r1"].files[3].name} \subseteq blobs

\* C8: after an upload that passed validation has answered, the owner's
\* storageUsed has grown by the sum of the sizes of exactly the images
\* reported as uploaded.
C8_StorageIncreaseIsUploadedSize ==
    \A r \in Reqs :
        UploadAnswered(r) =>
            storageUsed[rq[r].user] - rq[r].pre.storageUsed[rq[r].user]
              = UploadedSize(r, rq[r].uploadedImages)

\* C9: after an upload that passed validation has answered, the category's
\* imageCount has grown by exactly the number of images reported as uploaded.
C9_CountIncreaseIsUploadedNumber ==
    \A r \in Reqs :
        UploadAnswered(r) =>
            imageCount[rq[r].cat] - rq[r].pre.imageCount[rq[r].cat]
              = Len(rq[r].uploadedImages)

\* C10: a second deleteImage of the same id by its owner, right after one that
\* succeeded, answers NotFound, and over the two calls storageUsed went down by
\* the image's size once and the category's imageCount by one once.
C10_DeleteTwiceDecrementsOnce ==
    \A r \in Reqs :
        (DeleteDone(r) /\ rq[r].again /\ rq[r].resp # "ServerError") =>
            LET im == CHOOSE x \in rq[r].first.images : x.id = rq[r].id IN
            /\ rq[r].resp = "NotFound"
            /\ storageUsed[im.userId]
                 = rq[r].first.storageUsed[im.userId] - im.size
            /\ imageCount[im.category]
                 = rq[r].first.imageCount[im.category] - 1

\* the image the request names exists and belongs to another user
NotOwner(r) ==
    /\ rq[r].kind \in {"deleteImage", "getImage"}
    /\ \E im \in rq[r].pre.images : im.id = rq[r].id /\ im.userId # rq[r].user

\* C11: a deleteImage or getImage by a user who does not own the image is
\* answered at once, with NotFound (ServerError only when the lookup itself
\* failed, as for an id that does not exist), and changes nothing: the Image
\* records, the blobs, storageUsed and imageCount are as they were.
C11_NotOwnerIsNotFound ==
    \A r \in Reqs :
        NotOwner(r) =>
            /\ rq[r].pc = "done"
            /\ rq[r].resp \in {"NotFound", "ServerError"}
            /\ faults = 0 => rq[r].resp = "NotFound"
            /\ images = rq[r].pre.images
            /\ blobs = rq[r].pre.blobs
            /\ storageUsed = rq[r].pre.storageUsed
            /\ imageCount = rq[r].pre.imageCount

\* C11, the case reached: u2 asked to delete an image of u1; the answer is
\* NotFound and the record and its blob are still there
C11_Witness ==
    /\ rq["r1"].kind = "deleteImage" /\ rq["r1"].user = "u2"
    /\ rq["r1"].resp = "NotFound"
    /\ \E im \in images :
           im.id = rq["r1"].id /\ im.userId = "u1" /\ im.fileName \in blobs

\* the Image records that referenced the request's category when it entered
ReferencedBy(r) == {im \in rq[r].pre.images : im.category = rq[r].cat}

\* C12: a category-delete request that finds at least one Image record
\* referencing the category (counted from the records, whatever the cached
\* imageCount says) is rejected without reaching the removal and the Category
\* is kept; one that finds none, for a Category that exists, removes it and
\* reports success unless the store call itself fails.
C12_CategoryDeleteCountsRecords ==
    \A r \in Reqs :
        rq[r].kind = "deleteCategory" =>
            /\ ReferencedBy(r) # {} =>
                   /\ rq[r].pc = "done"
                   /\ rq[r].resp \in {"CategoryHasImages", "ServerError"}
                   /\ categories = rq[r].pre.categories
            /\ ( /\ ReferencedBy(r) = {}
                 /\ rq[r].cat \in rq[r].pre.categories
                 /\ rq[r].pc = "done"
                 /\ rq[r].resp # "ServerError" ) =>
                   /\ rq[r].resp = "Deleted"
                   /\ rq[r].cat \notin categories

\* C12, the case reached: images were uploaded into c1 (no call failed, and
\* its imageCount is still above zero), the last of them has been deleted,
\* and the category-delete request succeeded
C12_Witness ==
    /\ rq["r1"].kind = "deleteCategory" /\ rq["r1"].cat = "c1"
    /\ rq["r1"].resp = "Deleted"
    /\ faults = 0
    /\ rq["r1"].pre.imageCount["c1"] > 0
    /\ rq["r1"].pre.images = {}
    /\ "c1" \notin categories

\* a - b, clamped at zero
ClampedSub(a, b) == IF a - b < 0 THEN 0 ELSE a - b

C14_ConcurrentUploadsNoLostUpdate ==
    (Quiescent /\ faults = 0) =>
        /\ storageUsed["u1"] = SumSize(images)
        /\ imageCount["c1"] = Cardinality(images)
        /\ \A r \in Reqs : \A k \in DOMAIN rq[r].files :
               \E im \in images : im.id = rq[r].files[k].id

\* C14, the case reached: two uploads that were in flight together (neither
\* saw an image of the other when it entered) have both returned, three images
\* in all
C14_Witness ==
    /\ Quiescent /\ faults = 0
    /\ \A r \in Reqs : UploadAnswered(r) /\ rq[r].resp = "Success"
                        /\ rq[r].pre.images = {}
    /\ Cardinality(images) = 3
    /\ storageUsed["u1"] = SumSize(images)
    /\ imageCount["c1"] = 3

\* C15: a validated batch is answered with success (carrying uploadedImages
\* and the errors, if any) exactly when at least one file was pushed to
\* uploadedImages, and with the failure 'No images were successfully uploaded'
\* (carrying the errors) exactly when every file of the batch is among the
\* errors.
C15_SuccessIffOneFileCompleted ==
    \A r \in Reqs :
        UploadAnswered(r) =>
            /\ rq[r].resp = "Success" <=> UploadedFiles(r) # {}
            /\ rq[r].resp = "NoImagesUploaded"
                  <=> ErrorFiles(r) = DOMAIN rq[r].files

\* C15, the case reached: of two files the first failed and the second
\* completed, and the batch is answered with success
C15_Witness ==
    /\ UploadAnswered("r1")
    /\ Len(rq["r1"].files) = 2
    /\ rq["r1"].uploadedImages = <<2>>
    /\ ErrorFiles("r1") = {1}
    /\ rq["r1"].resp = "Success"

\* the files the loop has dealt with: all of them once the request has
\* answered, those before the current one while it is being saved or
\* populated, and the current one too once its failure has been recorded
Processed(r) ==
    IF rq[r].pc = "done" THEN DOMAIN rq[r].files
    ELSE IF rq[r].pc = "catchFile" THEN 1..rq[r].i
    ELSE 1..(rq[r].i - 1)

\* C16: once a batch has passed validation and entered the per-file loop, the
\* request never takes the batch-level server-error outcome, whatever per-file
\* step (save, populate, unlink) fails: each file dealt with so far is exactly
\* once either among uploadedImages or among errors, and at the response the
\* two lists together are as long as the batch.
C16_PerFileFailureIsCollected ==
    \A r \in Reqs :
        (rq[r].kind = "upload" /\ rq[r].i >= 1) =>
            /\ rq[r].resp # "ServerError"
            /\ rq[r].pc \in {"save", "populate", "catchFile", "done"}
            /\ UploadedFiles(r) \cup ErrorFiles(r) = Processed(r)
            /\ UploadedFiles(r) \cap ErrorFiles(r) = {}
            /\ Len(rq[r].uploadedImages) + Len(rq[r].errors)
                 = Cardinality(Processed(r))
            /\ rq[r].pc = "done" =>
                   Len(rq[r].uploadedImages) + Len(rq[r].errors) = Len(rq[r].files)

\* C16, the case reached: the first file's populate failed and then the unlink
\* of its blob failed too; the second file was still processed, and the
\* response lists one uploaded image and one failure
C16_Witness ==
    /\ UploadAnswered("r1")
    /\ Len(rq["r1"].files) = 2
    /\ rq["r1"].errors = <<[file |-> 1, step |-> "populate"]>>
    /\ rq["r1"].unlinkErrors = {1}
    /\ rq["r1"].uploadedImages = <<2>>
    /\ rq["r1"].resp = "Success"

\* the batch has more files than allowed, or a file that is not an image or
\* is too large
BadBatch(files) ==
    \/ Len(files) > FilesLimit
    \/ \E k \in DOMAIN files :
          \/ ~StartsWith(files[k].mime, <<"i", "m", "a", "g", "e", "/">>)
          \/ files[k].size > FileSizeLimit

\* C17: an upload whose batch has a file with a mimetype not starting with
\* 'image/', a file over the size limit, or more files than the limit, is
\* answered with a rejection at once, and no Image record exists for any file
\* of the batch: the Image records, storageUsed and imageCount are as they were.
C17_BadBatchRejectedWhole ==
    \A r \in Reqs :
        (rq[r].kind = "upload" /\ BadBatch(rq[r].files)) =>
            /\ rq[r].pc = "done"
            /\ rq[r].resp \in {"OnlyImages", "FileTooLarge", "TooManyFiles"}
            /\ images = rq[r].pre.images
            /\ storageUsed = rq[r].pre.storageUsed
            /\ imageCount = rq[r].pre.imageCount

\* C17, the case reached: after an earlier upload succeeded, a batch of a
\* valid image followed by a text file is rejected and nothing was created
\* for the valid image
C17_Witness ==
    /\ rq["r1"].kind = "upload"
    /\ Len(rq["r1"].files) = 2
    /\ rq["r1"].files[1].mime = ImagePng /\ rq["r1"].files[1].size = 1
    /\ rq["r1"].files[2].mime = TextCss
    /\ rq["r1"].resp = "OnlyImages"
    /\ images # {}
    /\ images = rq["r1"].pre.images

\* the Image record created for file k of the request, if there is one
RecordsOfFile(r, k) == {im \in images : im.id = rq[r].files[k].id}

\* C18: when a validated upload has answered, every image in the list of
\* uploaded images has uploadStatus 'completed', and no file reported as failed
\* has a record left in 'processing' or 'completed'.
C18_UploadedImagesAreCompleted ==
    \A r \in Reqs :
        UploadAnswered(r) =>
            /\ \A k \in UploadedFiles(r) :
                   \A im \in RecordsOfFile(r, k) : im.uploadStatus = "completed"
            /\ \A k \in ErrorFiles(r) :
                   \A im \in RecordsOfFile(r, k) :
                       im.uploadStatus \notin {"processing", "completed"}

\* the unlink that the per-file catch of file k awaits has returned: it removed
\* the blob, or it failed and the failure was logged
CleanupFinished(r, k) ==
    /\ ~(rq[r].pc = "catchFile" /\ rq[r].i = k)
    /\ \/ rq[r].files[k].name \notin blobs
       \/ k \in rq[r].unlinkErrors

\* C19: while the unlink of a failed file's blob is in flight the request has
\* not answered, and once a validated batch has answered, the unlink of every
\* file it reports as failed has finished (the blob removed, or the failure
\* logged).
C19_CleanupBeforeFailureReported ==
    \A r \in Reqs :
        rq[r].kind = "upload" =>
            /\ rq[r].pc = "catchFile" => rq[r].resp = ""
            /\ rq[r].resp \in {"Success", "NoImagesUploaded"} =>
                   /\ rq[r].pc = "done"
                   /\ \A k \in ErrorFiles(r) : CleanupFinished(r, k)

\* C19, the case reached: the save of the only file failed, then the unlink of
\* its blob failed and was logged; only then was the batch reported as failed
C19_Witness ==
    /\ rq["r1"].kind = "upload" /\ rq["r1"].pc = "done"
    /\ rq["r1"].resp = "NoImagesUploaded"
    /\ rq["r1"].errors = <<[file |-> 1, step |-> "save"]>>
    /\ rq["r1"].unlinkErrors = {1}
    /\ rq["r1"].files[1].name \in blobs

\* C20: once a request has sent its response, nothing it started is still
\* running: it is at its end and none of its blob deletions is outstanding.
C20_NoWorkAfterResponse ==
    \A r \in Reqs :
        rq[r].resp # "" => (rq[r].pc = "done" /\ rq[r].pending = {})

\* C21: a deleteImage that has found the owner's image first attempts the
\* unlink of the blob, with the record still in the store, and goes on to the
\* record removal whether or not the unlink removed the blob; the removal step
\* touches no blob and, unless the store call itself fails, removes the record
\* and reports success.
C21_DeleteUnlinksThenRemoves ==
    [][\A r \in Reqs :
          (rq[r].kind = "deleteImage" /\ rq'[r] # rq[r]) =>
              /\ rq[r].pc = "unlink" =>
                     /\ FoundImage(r) \in images
                     /\ images' = images
                     /\ rq'[r].pc = "remove"
              /\ rq[r].pc = "remove" =>
                     /\ blobs' = blobs
                     /\ faults' = faults =>
                            /\ rq'[r].resp = "Deleted"
                            /\ FoundImage(r) \notin images']_vars

\* C21, the case reached: the unlink failed, the blob is still on disk, and the
\* request removed the record and reported success
C21_Witness ==
    /\ DeleteDone("r1") /\ rq["r1"].resp = "Deleted"
    /\ FoundImage("r1").fileName \in blobs
    /\ FoundImage("r1") \notin images

\* C22: the name generated for a file of an upload is the name of no blob that
\* was in the store when the request arrived and of no other file of the
\* batch, and no blob name is the fileName of more than one Image record.
C22_GeneratedNameIsFresh ==
    /\ \A r \in Reqs :
           rq[r].kind = "upload" =>
               /\ BatchNames(r) \cap rq[r].pre.blobs = {}
               /\ Cardinality(BatchNames(r)) = Len(rq[r].files)
    /\ \A im1 \in images : \A im2 \in images :
           im1.fileName = im2.fileName => im1 = im2

RECURSIVE LowerCase(_)
LowerCase(str) ==
    IF str = <<>> THEN <<>> ELSE <<Lower(Head(str))>> \o LowerCase(Tail(str))

\* C23: no two Category records have names that are equal when compared
\* case-insensitively.
C23_CategoryNamesUnique ==
    \A c \in categories : \A d \in categories :
        c # d => LowerCase(categoryName[c]) # LowerCase(categoryName[d])

\* C24: a create-category request with a non-blank name of allowed characters,
\* equal (case-insensitively) to the name of no Category that existed when it
\* arrived, in a behaviour without store failures, has created a Category
\* with the trimmed name and reports success.
C24_CreateCategorySucceeds ==
    \A r \in Reqs :
        ( /\ rq[r].kind = "createCategory" /\ rq[r].pc = "done"
          /\ faults = 0
          /\ rq[r].name # <<>>
          /\ \A k \in DOMAIN rq[r].name : rq[r].name[k] # "."
          /\ \A c \in rq[r].pre.categories :
                 LowerCase(rq[r].pre.categoryName[c]) # LowerCase(rq[r].name) ) =>
            /\ rq[r].resp = "Created"
            /\ \E c \in categories : categoryName[c] = rq[r].name

RegisterDone(r) == rq[r].kind = "register" /\ rq[r].pc = "done"

\* the User record a registration request asks for
Account(r) == [username |-> rq[r].user, email |-> rq[r].email]

C26_ImageCategoryExists ==
    \A im \in images : im.category \in categories

\* C27: of two deleteImage requests for the same image by its owner, at most
\* one reports success, and when one has, the other, if it got an answer from
\* the store, reports NotFound.
C27_OneDeleteSucceeds ==
    \A r1 \in Reqs : \A r2 \in Reqs :
        ( /\ r1 # r2
          /\ DeleteDone(r1) /\ DeleteDone(r2)
          /\ rq[r1].id = rq[r2].id /\ rq[r1].user = rq[r2].user
          /\ rq[r1].resp = "Deleted" ) =>
            rq[r2].resp \in {"NotFound", "ServerError"}

\* C28: when a validated upload has answered, no file it reports as failed has
\* an Image record in the store, and every file of the batch that has a record
\* is in its list of uploaded images.
C28_FailedFileHasNoRecord ==
    \A r \in Reqs :
        UploadAnswered(r) =>
            /\ \A k \in ErrorFiles(r) : RecordsOfFile(r, k) = {}
            /\ \A k \in DOMAIN rq[r].files :
                   RecordsOfFile(r, k) # {} => k \in UploadedFiles(r)

\* the step the per-file catch of the current file was entered from
FailedStep(r) == rq[r].errors[Len(rq[r].errors)].step

\* C29: the unlink of the per-file catch that follows a failed save removes
\* no blob that an existing Image record refers to.
C29_CompensationSparesReferencedBlobs ==
    [][\A r \in Reqs :
          ( /\ rq[r].kind = "upload" /\ rq[r].pc = "catchFile"
            /\ FailedStep(r) = "save"
            /\ rq'[r] # rq[r] ) =>
              \A im \in images :
                  im.fileName \in blobs => im.fileName \in blobs']_vars

\* C30: a step of an upload by u into c changes the storageUsed of no other
\* user and the imageCount of no other category, creates records only with
\* userId u and category c, and leaves every record that existed when the
\* request arrived, and its blob, in place.
C30_UploadFrame ==
    [][\A r \in Reqs :
          (rq'[r].kind = "upload" /\ rq'[r] # rq[r]) =>
              /\ \A u \in Users \ {rq'[r].user} : storageUsed'[u] = storageUsed[u]
              /\ \A c \in Cats \ {rq'[r].cat} : imageCount'[c] = imageCount[c]
              /\ \A im \in images' \ images :
                     im.userId = rq'[r].user /\ im.category = rq'[r].cat
              /\ \A im \in rq'[r].pre.images \cap images :
                     /\ im \in images'
                     /\ im.fileName \in blobs => im.fileName \in blobs']_vars

====
